---- MODULE Spec2Model ----
(***************************************************************************)
(* TDMS batch converter (batches.py): discovery of *.tdms entries under a  *)
(* root directory, per-file conversion of every group to a CSV file that   *)
(* is written in 101 segments, and the batch summary / process exit code.  *)
(*                                                                         *)
(* Names are sequences of one-character strings so that suffix matching,   *)
(* Path.stem and the pathlib join are computed rather than assumed.        *)
(***************************************************************************)
EXTENDS Integers, Sequences, FiniteSets, TLC

(***************************************************************************)
(* Bounds of the model                                                     *)
(***************************************************************************)
MaxArgc == 3
MaxEntries == 2
MaxGroups == 3
MaxRows == 2
MaxSplitRows == 205
MaxFailAt == 2

(***************************************************************************)
(* Program constant: np.array_split(group_df.index, 101)                   *)
(***************************************************************************)
NumSegments == 101

(***************************************************************************)
(* Names and paths                                                         *)
(***************************************************************************)
TdmsSuffix == <<".", "t", "d", "m", "s">>
CsvFormat == <<"c", "s", "v">>

Name_x_tdms == <<"x">> \o TdmsSuffix
Name_y_tdms == <<"y">> \o TdmsSuffix
Name_d_tdms == <<"d">> \o TdmsSuffix
Name_n_txt == <<"n", ".", "t", "x", "t">>
Name_x_a == <<"x", "_", "a">>

\* The entries a directory tree under the root may hold: regular files and
\* directories, at nesting depth 1 to 3.
Universe ==
    { [path |-> << <<"a">>, Name_x_tdms >>, is_dir |-> FALSE],
      [path |-> << <<"b">>, <<"c">>, Name_y_tdms >>, is_dir |-> FALSE],
      [path |-> << Name_d_tdms >>, is_dir |-> TRUE],
      [path |-> << <<"a">>, Name_n_txt >>, is_dir |-> FALSE],
      [path |-> << <<"a">>, Name_x_a >>, is_dir |-> TRUE] }

\* The directory trees considered: at most MaxEntries entries below the root.
Trees == { t \in SUBSET Universe : Cardinality(t) <= MaxEntries }

\* Names a TDMS group may carry (a group name is an arbitrary string).
GroupNames ==
    { <<"V">>, <<"E">>, <<"a", "/", "b">>, <<"a", "/", "/", "b">> }

EndsWith(name, suffix) ==
    /\ Len(name) >= Len(suffix)
    /\ SubSeq(name, Len(name) - Len(suffix) + 1, Len(name)) = suffix

\* fnmatch of a name against the pattern "*.tdms"
MatchesPattern(name) == EndsWith(name, TdmsSuffix)

BaseName(path) == path[Len(path)]
Parent(path) == SubSeq(path, 1, Len(path) - 1)

\* Path.rglob("*.tdms"): every entry below the root, whatever its kind,
\* whose last component matches the pattern.
rglob(t) == { e \in t : MatchesPattern(BaseName(e.path)) }

\* Path.stem: the final component without its last suffix.
DotPositions(name) == { i \in 1..Len(name) : name[i] = "." }
LastDot(name) ==
    IF DotPositions(name) = {} THEN 0
    ELSE CHOOSE i \in DotPositions(name) : \A j \in DotPositions(name) : j <= i
Stem(name) ==
    IF LastDot(name) > 1 /\ LastDot(name) < Len(name)
    THEN SubSeq(name, 1, LastDot(name) - 1)
    ELSE name

\* pathlib parsing of a relative string: split at "/" and drop the empty
\* and "." components.
RECURSIVE SplitAt(_, _, _)
SplitAt(s, i, cur) ==
    IF i > Len(s) THEN << cur >>
    ELSE IF s[i] = "/" THEN << cur >> \o SplitAt(s, i + 1, << >>)
    ELSE SplitAt(s, i + 1, Append(cur, s[i]))

RECURSIVE DropEmpty(_)
DropEmpty(parts) ==
    IF parts = << >> THEN << >>
    ELSE IF Head(parts) = << >> \/ Head(parts) = <<".">>
         THEN DropEmpty(Tail(parts))
         ELSE << Head(parts) >> \o DropEmpty(Tail(parts))

PathParts(s) == DropEmpty(SplitAt(s, 1, << >>))

construct_destination_file_path(source_file_path, group_name) ==
    LET destination_dir == Parent(source_file_path)
        destination_file_name ==
            Stem(BaseName(source_file_path)) \o <<"_">> \o group_name
                \o <<".">> \o CsvFormat
    IN  destination_dir \o PathParts(destination_file_name)

(***************************************************************************)
(* Tables, segments and CSV writing                                        *)
(***************************************************************************)
\* The row index of a table of r rows (nptdms builds a default RangeIndex).
RangeIndex(r) == [i \in 1..r |-> i - 1]

\* numpy.array_split(ary, n): divmod, section sizes, cumulative division
\* points, slices between consecutive division points.
\*   Neach_section, extras = divmod(Ntotal, Nsections)
\*   section_sizes = [0] + extras * [Neach_section + 1]
\*                       + (Nsections - extras) * [Neach_section]
\*   div_points = cumsum(section_sizes)
Neach_section(total, n) == total \div n
extras(total, n) == total % n

\* Variant of DivPoint that forgets the extras: every section gets
\* Neach_section rows and the remainder of the division is dropped.
DivPoint_NoExtras(total, n, i) == i * Neach_section(total, n)

\* cumsum(section_sizes)[i]: i sections of Neach_section rows, the first
\* extras of them one row longer.
DivPoint(total, n, i) ==
    i * Neach_section(total, n)
        + (IF i <= extras(total, n) THEN i ELSE extras(total, n))

array_split(ary, n) ==
    [i \in 1..n |->
        SubSeq(ary, DivPoint(Len(ary), n, i - 1) + 1, DivPoint(Len(ary), n, i))]

HeaderLine == "header"

\* group_df.loc[chunk]: the rows carrying the labels of chunk, in chunk order
\* (the index is unique); a row is rendered by to_csv as one line.
loc(index, chunk) ==
    [i \in 1..Len(chunk) |-> CHOOSE l \in { index[j] : j \in 1..Len(index) } : l = chunk[i]]

\* Content of a path that does not exist.
Absent == << "absent" >>

\* DataFrame.to_csv(path, mode=..., header=...) seen from the file at path:
\* mode "w" truncates, mode "a" appends (creating the file when absent); the
\* header line is written first when requested.
to_csv(content, lines, mode, header) ==
    LET old == IF mode = "a" /\ content # Absent THEN content ELSE << >>
    IN  old \o (IF header THEN << HeaderLine >> ELSE << >>) \o lines

\* Variant of write_segment that passes no header=None when appending.
write_segment_HeaderEach(content, ix, segs, cnt) ==
    IF cnt = 0
    THEN to_csv(content, loc(ix, segs[cnt + 1]), "w", TRUE)
    ELSE to_csv(content, loc(ix, segs[cnt + 1]), "a", TRUE)

\* One iteration of "for count, chunk in enumerate(segments)"; cnt is
\* 0-based as in the code.
write_segment(content, ix, segs, cnt) ==
    IF cnt = 0
    THEN to_csv(content, loc(ix, segs[cnt + 1]), "w", TRUE)
    ELSE to_csv(content, loc(ix, segs[cnt + 1]), "a", FALSE)

\* Iterations lo .. hi-1 of the segment loop on the file at one path, run in
\* increasing order of the counter.  The range is halved and the first half
\* is evaluated before the second so that the evaluation stays shallow.
RECURSIVE write_range(_, _, _, _, _)
write_range(content, ix, segs, lo, hi) ==
    IF lo >= hi THEN content
    ELSE IF hi = lo + 1 THEN write_segment(content, ix, segs, lo)
    ELSE LET mid == (lo + hi) \div 2
             first_half == write_range(content, ix, segs, lo, mid)
         IN  IF Len(first_half) >= 0
             THEN write_range(first_half, ix, segs, mid, hi)
             ELSE first_half

\* The first k iterations of the segment loop.
write_segments(content, ix, segs, k) == write_range(content, ix, segs, 0, k)

ReadFile(d, path) == IF path \in DOMAIN d THEN d[path] ELSE Absent
StoreFile(d, path, content) ==
    IF content = Absent THEN d
    ELSE [p \in (DOMAIN d) \cup {path} |-> IF p = path THEN content ELSE d[p]]

(***************************************************************************)
(* State                                                                   *)
(***************************************************************************)
VARIABLES
    pc,                      \* position of the process
    argc,                    \* len(sys.argv)
    root_kind,               \* what sys.argv[1] names: "missing", "file", "dir"
    tree,                    \* the entries below the root directory
    tdms_files,              \* list returned by find_tdms_files
    file_idx,                \* 1-based position in the batch loop
    total_files,
    successful_conversions,
    failed_conversions,
    total_csv_files_created,
    exit_code,               \* -1 while the process runs
    fatal_error,             \* the outer handler of the batch caught an exception
    results,                 \* every ConversionResult returned so far
    n_groups,                \* len(groups) of the open source file
    frames,                  \* the groups iterated so far in this conversion
    created_files,
    result,                  \* return value of convert_tdms_file
    open_handles,            \* source files whose binary handle is open
    disk,                    \* output files of the conversion in progress
    index,                   \* group_df.index of the table being written
    segments,                \* np.array_split(group_df.index, 101)
    count                    \* segment loop counter

vars == << pc, argc, root_kind, tree, tdms_files, file_idx, total_files,
           successful_conversions, failed_conversions,
           total_csv_files_created, exit_code, fatal_error, results, n_groups,
           frames,
           created_files, result, open_handles, disk, index, segments, count >>

batch_vars == << tdms_files, file_idx, total_files, successful_conversions,
                 failed_conversions, total_csv_files_created, results >>
convert_vars == << n_groups, frames, created_files, result, open_handles, disk >>
segment_vars == << index, segments, count >>
env_vars == << argc, root_kind, tree >>
exit_vars == << exit_code, fatal_error >>

NoResult == [success |-> FALSE, error_msg |-> "none", created_files |-> << >>]
EmptyDisk == [p \in {} |-> << >>]

\* All orders in which the file system may enumerate a set of entries.
Orders(S) ==
    { s \in [1..Cardinality(S) -> S] :
        \A i, j \in 1..Cardinality(S) : i # j => s[i] # s[j] }

Init ==
    /\ pc = "main"
    /\ argc \in 1..MaxArgc
    /\ root_kind \in {"missing", "file", "dir"}
    /\ tree \in Trees
    /\ tdms_files = << >>
    /\ file_idx = 0
    /\ total_files = 0
    /\ successful_conversions = 0
    /\ failed_conversions = 0
    /\ total_csv_files_created = 0
    /\ exit_code = -1
    /\ fatal_error = FALSE
    /\ results = << >>
    /\ n_groups = 0
    /\ frames = << >>
    /\ created_files = << >>
    /\ result = NoResult
    /\ open_handles = {}
    /\ disk = EmptyDisk
    /\ index = << >>
    /\ segments = << >>
    /\ count = 0

(***************************************************************************)
(* main                                                                    *)
(***************************************************************************)
MainUsage ==
    /\ pc = "main"
    /\ argc # 2
    /\ pc' = "exited"
    /\ exit_code' = 1
    /\ fatal_error' = FALSE
    /\ UNCHANGED << env_vars, batch_vars, convert_vars, segment_vars >>

MainBadRoot ==
    /\ pc = "main"
    /\ argc = 2
    /\ root_kind # "dir"
    /\ pc' = "exited"
    /\ exit_code' = 1
    /\ fatal_error' = FALSE
    /\ UNCHANGED << env_vars, batch_vars, convert_vars, segment_vars >>

MainRunBatch ==
    /\ pc = "main"
    /\ argc = 2
    /\ root_kind = "dir"
    /\ pc' = "batch"
    /\ UNCHANGED << exit_vars, env_vars, batch_vars, convert_vars, segment_vars >>

(***************************************************************************)
(* batch_convert_tdms_files                                                *)
(***************************************************************************)
find_tdms_files(t) == rglob(t)

\* The loop variable tdms_file of the batch loop.
source_file == tdms_files[file_idx]

\* find_tdms_files raises (the root vanished after main's check, or the
\* traversal fails): the outer handler prints and calls sys.exit(1).
DiscoverFatal ==
    /\ pc = "batch"
    /\ pc' = "exited"
    /\ exit_code' = 1
    /\ fatal_error' = TRUE
    /\ UNCHANGED << env_vars, batch_vars, convert_vars, segment_vars >>

DiscoverNone ==
    /\ pc = "batch"
    /\ find_tdms_files(tree) = {}
    /\ pc' = "exited"
    /\ exit_code' = 0
    /\ fatal_error' = FALSE
    /\ UNCHANGED << env_vars, batch_vars, convert_vars, segment_vars >>

DiscoverSome ==
    /\ pc = "batch"
    /\ find_tdms_files(tree) # {}
    /\ \E order \in Orders(find_tdms_files(tree)) :
          /\ tdms_files' = order
          /\ total_files' = Len(order)
    /\ file_idx' = 1
    /\ pc' = "convert"
    /\ UNCHANGED << env_vars, exit_vars, successful_conversions,
                    failed_conversions, total_csv_files_created, results,
                    convert_vars, segment_vars >>

\* Lines 183-189 of the loop body, then the loop's advance.
tally_success(r, n) == IF r.success THEN n + 1 ELSE n
tally_failed(r, n) == IF r.success THEN n ELSE n + 1
tally_created(r, n) == IF r.success THEN n + Len(r.created_files) ELSE n
\* Variant of next_pc that leaves the loop at the first failed conversion.
next_pc_AbortOnFailure(r, idx, total) ==
    IF r.success /\ idx < total THEN "convert" ELSE "summary"

next_pc(r, idx, total) == IF idx < total THEN "convert" ELSE "summary"

Tally ==
    /\ pc = "returned"
    /\ successful_conversions' = tally_success(result, successful_conversions)
    /\ failed_conversions' = tally_failed(result, failed_conversions)
    /\ total_csv_files_created' = tally_created(result, total_csv_files_created)
    /\ results' = Append(results, [file |-> source_file,
                                   success |-> result.success,
                                   error_msg |-> result.error_msg,
                                   n_created |-> Len(result.created_files)])
    /\ pc' = next_pc(result, file_idx, total_files)
    /\ file_idx' = IF pc' = "convert" THEN file_idx + 1 ELSE file_idx
    /\ n_groups' = 0
    /\ frames' = << >>
    /\ created_files' = << >>
    /\ result' = NoResult
    /\ disk' = EmptyDisk
    /\ UNCHANGED << env_vars, exit_vars, tdms_files, total_files,
                    open_handles, segment_vars >>

\* Variant of Summary that exits with status 1 when a conversion failed.
Summary_FailureStatus ==
    /\ pc = "summary"
    /\ pc' = "exited"
    /\ exit_code' = IF failed_conversions > 0 THEN 1 ELSE 0
    /\ fatal_error' = FALSE
    /\ UNCHANGED << env_vars, batch_vars, convert_vars, segment_vars >>

Summary ==
    /\ pc = "summary"
    /\ pc' = "exited"
    /\ exit_code' = 0
    /\ fatal_error' = FALSE
    /\ UNCHANGED << env_vars, batch_vars, convert_vars, segment_vars >>

(***************************************************************************)
(* convert_tdms_file                                                       *)
(***************************************************************************)
\* Variant of with_exit that leaves the handle open.
with_exit_Leak(handles, f) == handles

\* __exit__ of "with TdmsFile.open(...) as tdms_file": the handle is closed
\* whichever way the block is left.
with_exit(handles, f) == handles \ {f}

failure(msg, created) ==
    [success |-> FALSE, error_msg |-> msg, created_files |-> created]

\* to_csv cannot create a file in a directory that does not exist.
DirExists(dir) ==
    \/ dir = Parent(source_file.path)
    \/ [path |-> dir, is_dir |-> TRUE] \in tree

SeenNames == { frames[i].name : i \in 1..Len(frames) }

\* TdmsFile.open raises: the entry is a directory, or not a readable TDMS
\* container.  The handler returns failure with the empty created list.
OpenRaises ==
    /\ pc = "convert"
    /\ result' = failure("error", created_files)
    /\ pc' = "returned"
    /\ UNCHANGED << env_vars, exit_vars, batch_vars, n_groups, frames,
                    created_files, open_handles, disk, segment_vars >>

OpenFile ==
    /\ pc = "convert"
    /\ ~source_file.is_dir
    /\ \E n \in 0..MaxGroups : n_groups' = n
    /\ open_handles' = open_handles \cup {source_file}
    /\ pc' = "groups"
    /\ UNCHANGED << env_vars, exit_vars, batch_vars, frames, created_files,
                    result, disk, segment_vars >>

NoGroups ==
    /\ pc = "groups"
    /\ n_groups = 0
    /\ result' = failure("no groups", << >>)
    /\ open_handles' = with_exit(open_handles, source_file)
    /\ pc' = "returned"
    /\ UNCHANGED << env_vars, exit_vars, batch_vars, n_groups, frames,
                    created_files, disk, segment_vars >>

\* group.as_dataframe() raises.
GroupRaises ==
    /\ pc = "groups"
    /\ Len(frames) < n_groups
    /\ \E name \in GroupNames \ SeenNames :
          frames' = Append(frames, [name |-> name, rows |-> -1, written |-> 0])
    /\ result' = failure("error", created_files)
    /\ open_handles' = with_exit(open_handles, source_file)
    /\ pc' = "returned"
    /\ UNCHANGED << env_vars, exit_vars, batch_vars, n_groups, created_files,
                    disk, segment_vars >>

\* Variant of skips without the emptiness test.
skips_Never(r) == FALSE

\* "if group_df.empty: continue"
skips(r) == r = 0

\* One iteration of the group loop that raises nothing: an empty table is
\* skipped, any other is written in NumSegments segments and recorded.
ConvertGroup ==
    /\ pc = "groups"
    /\ Len(frames) < n_groups
    /\ \E name \in GroupNames \ SeenNames, r \in 0..MaxRows :
          LET csv_file_path ==
                  construct_destination_file_path(source_file.path, name)
              ix == RangeIndex(r)
          IN  IF skips(r)
              THEN /\ frames' = Append(frames, [name |-> name, rows |-> r,
                                                written |-> 0])
                   /\ UNCHANGED << disk, created_files >>
              ELSE /\ DirExists(Parent(csv_file_path))
                   /\ frames' = Append(frames, [name |-> name, rows |-> r,
                                                written |-> NumSegments])
                   /\ disk' = StoreFile(disk, csv_file_path,
                         write_segments(ReadFile(disk, csv_file_path), ix,
                             array_split(ix, NumSegments), NumSegments))
                   /\ created_files' = Append(created_files, csv_file_path)
    /\ UNCHANGED << pc, env_vars, exit_vars, batch_vars, n_groups, result,
                    open_handles, segment_vars >>

\* A group that is not skipped and whose write of segment fail_at raises: the segments
\* before it are on disk, the path is not recorded.
WriteRaises ==
    /\ pc = "groups"
    /\ Len(frames) < n_groups
    /\ \E name \in GroupNames \ SeenNames, r \in 0..MaxRows,
          fail_at \in 0..MaxFailAt :
          LET csv_file_path ==
                  construct_destination_file_path(source_file.path, name)
              ix == RangeIndex(r)
          IN  /\ ~skips(r)
              /\ fail_at < NumSegments
              /\ DirExists(Parent(csv_file_path)) \/ fail_at = 0
              /\ frames' = Append(frames, [name |-> name, rows |-> r,
                                           written |-> fail_at])
              /\ disk' = StoreFile(disk, csv_file_path,
                            write_segments(ReadFile(disk, csv_file_path), ix,
                                array_split(ix, NumSegments), fail_at))
    /\ result' = failure("error", created_files)
    /\ open_handles' = with_exit(open_handles, source_file)
    /\ pc' = "returned"
    /\ UNCHANGED << env_vars, exit_vars, batch_vars, n_groups, created_files,
                    segment_vars >>

\* The group loop is exhausted: leave the with block, return success.
FinishFile ==
    /\ pc = "groups"
    /\ n_groups > 0
    /\ Len(frames) = n_groups
    /\ result' = [success |-> TRUE, error_msg |-> "", created_files |-> created_files]
    /\ open_handles' = with_exit(open_handles, source_file)
    /\ pc' = "returned"
    /\ UNCHANGED << env_vars, exit_vars, batch_vars, n_groups, frames,
                    created_files, disk, segment_vars >>

Next ==
    \/ MainUsage
    \/ MainBadRoot
    \/ MainRunBatch
    \/ DiscoverFatal
    \/ DiscoverNone
    \/ DiscoverSome
    \/ OpenRaises
    \/ OpenFile
    \/ NoGroups
    \/ GroupRaises
    \/ ConvertGroup
    \/ WriteRaises
    \/ FinishFile
    \/ Tally
    \/ Summary

Spec == Init /\ [][Next]_vars

(***************************************************************************)
(* The segment loop of one group, one iteration per step                   *)
(* (lines 117-139 of convert_tdms_file for a table that is not empty).     *)
(***************************************************************************)
SegSource == [path |-> << <<"a">>, Name_x_tdms >>, is_dir |-> FALSE]
SegPath == construct_destination_file_path(SegSource.path, <<"V">>)
StaleDisk == [p \in {SegPath} |-> << "stale" >>]

\* group_df has just been materialized with 1 .. MaxSplitRows rows; the
\* destination may or may not hold a file left by an earlier run.
SegInit ==
    /\ pc = "materialized"
    /\ argc = 2
    /\ root_kind = "dir"
    /\ tree = {SegSource}
    /\ tdms_files = << SegSource >>
    /\ file_idx = 1
    /\ total_files = 1
    /\ successful_conversions = 0
    /\ failed_conversions = 0
    /\ total_csv_files_created = 0
    /\ exit_code = -1
    /\ fatal_error = FALSE
    /\ results = << >>
    /\ n_groups = 1
    /\ frames = << >>
    /\ created_files = << >>
    /\ result = NoResult
    /\ open_handles = {SegSource}
    /\ disk \in {EmptyDisk, StaleDisk}
    /\ \E r \in 1..MaxSplitRows : index = RangeIndex(r)
    /\ segments = << >>
    /\ count = 0

SplitIndex ==
    /\ pc = "materialized"
    /\ segments' = array_split(index, NumSegments)
    /\ count' = 0
    /\ pc' = "writing"
    /\ UNCHANGED << env_vars, exit_vars, batch_vars, convert_vars, index >>

WriteSegment ==
    /\ pc = "writing"
    /\ count < Len(segments)
    /\ disk' = StoreFile(disk, SegPath,
                   write_segment(ReadFile(disk, SegPath), index, segments, count))
    /\ count' = count + 1
    /\ UNCHANGED << pc, env_vars, exit_vars, batch_vars, n_groups, frames,
                    created_files, result, open_handles, index, segments >>

SegmentsDone ==
    /\ pc = "writing"
    /\ count = Len(segments)
    /\ created_files' = Append(created_files, SegPath)
    /\ pc' = "written"
    /\ UNCHANGED << env_vars, exit_vars, batch_vars, n_groups, frames, result,
                    open_handles, disk, segment_vars >>

SegNext == SplitIndex \/ WriteSegment \/ SegmentsDone

SpecSegments == SegInit /\ [][SegNext]_vars

\* Concatenation of segments lo .. hi of the split.
RECURSIVE Concat(_, _, _)
Concat(segs, lo, hi) ==
    IF lo > hi THEN << >>
    ELSE IF lo = hi THEN segs[lo]
    ELSE Concat(segs, lo, (lo + hi) \div 2)
            \o Concat(segs, ((lo + hi) \div 2) + 1, hi)

(***************************************************************************)
(* Properties                                                              *)
(***************************************************************************)
Range(seq) == { seq[i] : i \in 1..Len(seq) }
NonEmptyGroups == { i \in 1..Len(frames) : frames[i].rows > 0 }
AllGroupsEmpty ==
    /\ n_groups >= 1
    /\ Len(frames) = n_groups
    /\ \A i \in 1..Len(frames) : frames[i].rows = 0
FullCsv(r) == << HeaderLine >> \o RangeIndex(r)

RECURSIVE SumCreated(_)
SumCreated(rs) ==
    IF rs = << >> THEN 0 ELSE Head(rs).n_created + SumCreated(Tail(rs))

\* C1: when convert_tdms_file returns success for a file of which K groups
\* have at least one row, exactly K output files exist for that source file
\* and the created-files list has length K.
C1_OneOutputPerNonEmptyGroup ==
    (pc = "returned" /\ result.success) =>
        /\ Cardinality(DOMAIN disk) = Cardinality(NonEmptyGroups)
        /\ Len(result.created_files) = Cardinality(NonEmptyGroups)

\* C2: while the segments of a non-empty table are written the output file
\* is one header line followed by the rows of the segments written so far,
\* and once all segments are written it is one header line followed by all
\* rows of the table in their original order, each exactly once.
C2_RowOrderRoundTrip ==
    /\ (pc = "writing" /\ count >= 1) =>
          ReadFile(disk, SegPath) = << HeaderLine >> \o Concat(segments, 1, count)
    /\ pc = "written" =>
          /\ count = NumSegments
          /\ ReadFile(disk, SegPath) = FullCsv(Len(index))

C2_Witness ==
    /\ pc = "written"
    /\ Len(index) < NumSegments
    /\ Len(index) >= 2

\* C3: when group 2 of a 3-group file raises (materializing its table or in
\* any of its segment writes), the output file of group 1 is complete, no
\* output file exists for group 2, group 3 is not processed and the result
\* is failure with a created-files list holding only the path of group 1.
RaisedInGroupTwoOfThree ==
    /\ pc = "returned"
    /\ n_groups = 3
    /\ Len(frames) = 2
    /\ ~result.success
C3_FailureLeavesNoPartialFile ==
    RaisedInGroupTwoOfThree =>
        LET path1 == construct_destination_file_path(source_file.path, frames[1].name)
            path2 == construct_destination_file_path(source_file.path, frames[2].name)
        IN  /\ frames[1].rows > 0 => ReadFile(disk, path1) = FullCsv(frames[1].rows)
            /\ path2 \notin DOMAIN disk
            /\ result.created_files =
                  (IF frames[1].rows > 0 THEN << path1 >> ELSE << >>)

\* C4: a failed conversion never aborts the batch: the files are converted
\* one after the other in discovery order, each exactly once, and when the
\* loop ends succeeded + failed = number of files discovered.
C4_BatchNeverAborts ==
    /\ pc \in {"convert", "groups", "returned"} =>
          /\ file_idx \in 1..total_files
          /\ Len(results) = file_idx - 1
    /\ \A i \in 1..Len(results) : results[i].file = tdms_files[i]
    /\ (pc = "summary" \/ (pc = "exited" /\ total_files > 0)) =>
          /\ total_files = Len(tdms_files)
          /\ Len(results) = total_files
          /\ successful_conversions + failed_conversions = total_files
          /\ failed_conversions =
                Cardinality({ i \in 1..Len(results) : ~results[i].success })

C4_Witness ==
    /\ pc = "summary"
    /\ total_files >= 2
    /\ ~results[1].success
    /\ results[2].success

\* C5: the summary's total of outputs created equals the number of output
\* files recorded in the created-files lists of all conversion results,
\* successful or failed.
C5_TotalCountsAllRecordedOutputs ==
    pc = "summary" => total_csv_files_created = SumCreated(results)

\* C6: find_tdms_files returns exactly the regular files under the root
\* whose name ends with ".tdms", and no directory.
C6_DiscoveryReturnsExactlyTdmsFiles ==
    pc \in {"convert", "groups", "returned", "summary"} =>
        Range(tdms_files) =
            { e \in tree : ~e.is_dir /\ EndsWith(BaseName(e.path), TdmsSuffix) }

\* C7: the process exits with status 1 when the argument count is wrong,
\* the root is missing or not a directory, or an exception escapes the
\* batch; otherwise (no file found, or the loop ran to completion whatever
\* the number of failed conversions) it exits with status 0.
C7_ExitStatus ==
    pc = "exited" =>
        /\ exit_code =
              (IF argc # 2 \/ root_kind # "dir" \/ fatal_error THEN 1 ELSE 0)
        /\ (total_files > 0 /\ ~fatal_error) => Len(results) = total_files

C7_Witness ==
    /\ pc = "exited"
    /\ exit_code = 0
    /\ total_files >= 2
    /\ failed_conversions = total_files

\* C8: the handle of a source file is open only while that file's groups
\* are processed and is released on every way out of convert_tdms_file, so
\* at most one handle is open and none is open when the next file starts.
C8_HandleScoped ==
    /\ Cardinality(open_handles) <= 1
    /\ pc = "groups" => open_handles = {source_file}
    /\ pc # "groups" => open_handles = {}

C8_Witness ==
    /\ pc = "groups"
    /\ file_idx = 2
    /\ ~results[1].success
    /\ results[1].n_created >= 1

\* C9: the row index of a table of at least one row is split into exactly
\* 101 segments whose concatenation, in order, is the index, every row
\* being in exactly one segment.
C9_SegmentsPartitionIndex ==
    /\ pc \in {"writing", "written"} =>
          /\ Len(segments) = NumSegments
          /\ Concat(segments, 1, NumSegments) = index
    /\ (pc = "writing" /\ count = 0) =>
          \A i \in 1..Len(index) :
              Cardinality({ s \in 1..Len(segments) :
                              \E j \in 1..Len(segments[s]) :
                                  segments[s][j] = index[i] }) = 1

C9_Witness ==
    /\ pc = "writing"
    /\ Len(index) > NumSegments
    /\ Len(index) % NumSegments # 0

\* C10: a file without groups yields failure "no groups" with an empty
\* created list; a file with at least one group, all of them empty, yields
\* success with an empty created list and no output file, and the batch
\* counts it as a successful conversion.
C10_EmptinessVersusAbsence ==
    [][ /\ (pc = "groups" /\ n_groups = 0) =>
              /\ pc' = "returned"
              /\ result' = failure("no groups", << >>)
        /\ (pc = "groups" /\ AllGroupsEmpty) =>
              /\ pc' = "returned"
              /\ result' = [success |-> TRUE, error_msg |-> "",
                            created_files |-> << >>]
              /\ DOMAIN disk' = {}
        /\ (pc = "returned" /\ result.error_msg = "no groups") =>
              /\ failed_conversions' = failed_conversions + 1
              /\ successful_conversions' = successful_conversions
        /\ (pc = "returned" /\ AllGroupsEmpty) =>
              /\ successful_conversions' = successful_conversions + 1
              /\ failed_conversions' = failed_conversions
              /\ total_csv_files_created' = total_csv_files_created
      ]_vars

C10_Witness ==
    /\ pc = "returned"
    /\ AllGroupsEmpty
    /\ n_groups >= 2
    /\ result.success

====
